---------------------------- MODULE Spec2Model ----------------------------
(***************************************************************************)
(* Model of src/create_jwt.js: main({secret_key, payload}) imports the     *)
(* secret as an HMAC-SHA256 key, parses the payload text, sets exp, and    *)
(* signs header.payload with djwt's create().                              *)
(*                                                                         *)
(* Representation.                                                         *)
(*   - secret_key is a JavaScript string: a sequence of UTF-16 code units  *)
(*     (integers), so that NUL and lone surrogates can be drawn.           *)
(*   - every other text (the payload text, JSON.stringify's output, the    *)
(*     token) is a sequence of one-character strings over printable ASCII  *)
(*     without the backslash; JSON string escapes are therefore outside    *)
(*     the inputs drawn, and JSON.stringify's quoting has nothing to       *)
(*     escape.                                                             *)
(*   - bytes are integers 0..255.                                          *)
(*   - the clock (Date.now()) counts milliseconds from 0, not from 1970,   *)
(*     to stay inside TLC's integers.                                      *)
(***************************************************************************)
EXTENDS Integers, Sequences, FiniteSets, TLC

\* The clock advances in steps of TickMs milliseconds, at most MaxTicks times.
TickMs == 250
MaxTicks == 3

\* getNumericDate(1000): the lifetime in seconds (line 27).
Lifetime == 1000

\* The block size of SHA-256 in bytes, to which HMAC pads its key
\* ({ name: "HMAC", hash: "SHA-256" }, line 13).
BlockSize == 64

(***************************************************************************)
(* Characters and bytes                                                    *)
(***************************************************************************)

\* Printable ASCII, code 32 (space) to 126 (~), in code order. The backslash
\* (92) and the backtick (96) are outside the texts drawn: their places hold
\* markers that no character equals.
Ascii ==
  << " ", "!", "\"", "#", "$", "%", "&", "'", "(", ")", "*", "+", ",", "-", ".", "/",
     "0", "1", "2", "3", "4", "5", "6", "7", "8", "9", ":", ";", "<", "=", ">", "?",
     "@", "A", "B", "C", "D", "E", "F", "G", "H", "I", "J", "K", "L", "M", "N", "O",
     "P", "Q", "R", "S", "T", "U", "V", "W", "X", "Y", "Z", "[", "<92>", "]", "^", "_",
     "<96>", "a", "b", "c", "d", "e", "f", "g", "h", "i", "j", "k", "l", "m", "n", "o",
     "p", "q", "r", "s", "t", "u", "v", "w", "x", "y", "z", "{", "|", "}", "~" >>

\* The code unit of a character, and the character of a code unit.
CodeOf(c) == 31 + (CHOOSE i \in 1..Len(Ascii) : Ascii[i] = c)
CharOf(b) == Ascii[b - 31]

Digits == << "0", "1", "2", "3", "4", "5", "6", "7", "8", "9" >>
IsDigit(c) == \E i \in 1..10 : Digits[i] = c
DigitVal(c) == (CHOOSE i \in 1..10 : Digits[i] = c) - 1

\* The code units of a text.
CodeUnits(text) == [i \in 1..Len(text) |-> CodeOf(text[i])]

IsHighSurrogate(u) == u >= 55296 /\ u <= 56319
IsLowSurrogate(u) == u >= 56320 /\ u <= 57343

\* The pieces ps[lo], ..., ps[hi] joined.
RECURSIVE Concat(_, _, _)
Concat(ps, lo, hi) ==
  IF lo > hi THEN << >>
  ELSE IF lo = hi THEN ps[lo]
  ELSE Concat(ps, lo, (lo + hi) \div 2) \o Concat(ps, ((lo + hi) \div 2) + 1, hi)

\* The UTF-8 bytes that code unit i of u contributes: a high surrogate
\* directly followed by a low one makes a pair, one 4-byte code point, to which
\* the low one adds nothing; any other surrogate is alone and is replaced by
\* U+FFFD (EF BF BD).
Utf8Piece(u, i) ==
  LET c == u[i] IN
  IF c < 128 THEN << c >>
  ELSE IF c < 2048 THEN << 192 + (c \div 64), 128 + (c % 64) >>
  ELSE IF IsHighSurrogate(c) /\ i < Len(u) /\ IsLowSurrogate(u[i + 1])
    THEN LET cp == 65536 + (c - 55296) * 1024 + (u[i + 1] - 56320) IN
         << 240 + (cp \div 262144), 128 + ((cp \div 4096) % 64),
            128 + ((cp \div 64) % 64), 128 + (cp % 64) >>
  ELSE IF IsLowSurrogate(c) /\ i > 1 /\ IsHighSurrogate(u[i - 1]) THEN << >>
  ELSE IF IsHighSurrogate(c) \/ IsLowSurrogate(c) THEN << 239, 191, 189 >>
  ELSE << 224 + (c \div 4096), 128 + ((c \div 64) % 64), 128 + (c % 64) >>

\* TextEncoder.encode (line 8, and djwt's encoder): UTF-8 of a sequence of
\* UTF-16 code units.
Utf8Encode(u) == Concat([i \in 1..Len(u) |-> Utf8Piece(u, i)], 1, Len(u))

\* The base64url alphabet (RFC 4648 section 5): value i is B64Alphabet[i + 1].
B64Alphabet ==
  << "A", "B", "C", "D", "E", "F", "G", "H", "I", "J", "K", "L", "M", "N", "O", "P",
     "Q", "R", "S", "T", "U", "V", "W", "X", "Y", "Z", "a", "b", "c", "d", "e", "f",
     "g", "h", "i", "j", "k", "l", "m", "n", "o", "p", "q", "r", "s", "t", "u", "v",
     "w", "x", "y", "z", "0", "1", "2", "3", "4", "5", "6", "7", "8", "9", "-", "_" >>

\* djwt's encodeBase64Url: base64url of a byte sequence, without padding.
\* Character j stands for six bits of the group of three bytes it falls in;
\* a byte past the end counts as 0.
EncodeBase64Url(b) ==
  LET byte(k) == IF k <= Len(b) THEN b[k] ELSE 0
      sextet(j) ==
        LET g == 3 * ((j - 1) \div 4)
            r == (j - 1) % 4
        IN IF r = 0 THEN byte(g + 1) \div 4
           ELSE IF r = 1 THEN (byte(g + 1) % 4) * 16 + (byte(g + 2) \div 16)
           ELSE IF r = 2 THEN (byte(g + 2) % 16) * 4 + (byte(g + 3) \div 64)
           ELSE byte(g + 3) % 64
  IN [j \in 1..((4 * Len(b) + 2) \div 3) |-> B64Alphabet[sextet(j) + 1]]

(***************************************************************************)
(* JSON text -> document (the syntax JSON.parse accepts, ECMA-404)         *)
(*                                                                         *)
(* A document value is a record tagged by t:                               *)
(*   [t |-> "null"], [t |-> "bool", b], [t |-> "str", s],                  *)
(*   [t |-> "num", neg, m, e]   the exact decimal (-1)^neg * m * 10^e,     *)
(*                              m not divisible by 10 (0 is m = 0, e = 0), *)
(*   [t |-> "arr", items], [t |-> "obj", props] with props a sequence of   *)
(*   [k, v] members in text order, duplicates kept.                        *)
(***************************************************************************)

\* The character at position i, or "" past the end of the text.
At(s, i) == IF i >= 1 /\ i <= Len(s) THEN s[i] ELSE ""

IsWs(c) == c \in {" ", "\t", "\n", "\r"}

RECURSIVE SkipWs(_, _)
SkipWs(s, i) == IF IsWs(At(s, i)) THEN SkipWs(s, i + 1) ELSE i

ReadFail == [ok |-> FALSE, v |-> [t |-> "null"], i |-> 0]

\* The first position from i on that holds no digit.
RECURSIVE DigitsEnd(_, _)
DigitsEnd(s, i) == IF IsDigit(At(s, i)) THEN DigitsEnd(s, i + 1) ELSE i

\* The value of a sequence of digits.
RECURSIVE ToInt(_)
ToInt(ds) ==
  IF Len(ds) = 0 THEN 0
  ELSE 10 * ToInt(SubSeq(ds, 1, Len(ds) - 1)) + DigitVal(ds[Len(ds)])

RECURSIVE Pow10(_)
Pow10(n) == IF n <= 0 THEN 1 ELSE 10 * Pow10(n - 1)

\* The number of decimal digits of m > 0.
RECURSIVE NumDigits(_)
NumDigits(m) == IF m < 10 THEN 1 ELSE 1 + NumDigits(m \div 10)

\* m * 10^e with the trailing zeros of m moved into e.
RECURSIVE Decimal(_, _, _)
Decimal(neg, m, e) ==
  IF m = 0 THEN [t |-> "num", neg |-> FALSE, m |-> 0, e |-> 0]
  ELSE IF m % 10 = 0 THEN Decimal(neg, m \div 10, e + 1)
  ELSE [t |-> "num", neg |-> neg, m |-> m, e |-> e]

\* JSON number: -? (0 | [1-9][0-9]*) (. [0-9]+)? ([eE] [+-]? [0-9]+)?
ReadNumber(s, i) ==
  LET neg == At(s, i) = "-"
      p == IF neg THEN i + 1 ELSE i
      q == IF At(s, p) = "0" THEN p + 1 ELSE DigitsEnd(s, p)
      hasFrac == At(s, q) = "."
      r == IF hasFrac THEN DigitsEnd(s, q + 1) ELSE q
      hasExp == At(s, r) \in {"e", "E"}
      signed == hasExp /\ At(s, r + 1) \in {"+", "-"}
      x == IF signed THEN r + 2 ELSE r + 1
      z == IF hasExp THEN DigitsEnd(s, x) ELSE r
      fracDigits == IF hasFrac THEN SubSeq(s, q + 1, r - 1) ELSE << >>
      expVal == IF hasExp THEN ToInt(SubSeq(s, x, z - 1)) ELSE 0
      exp == IF hasExp /\ At(s, r + 1) = "-" THEN 0 - expVal ELSE expVal
  IN IF q = p \/ (hasFrac /\ r = q + 1) \/ (hasExp /\ z = x) THEN ReadFail
     ELSE [ok |-> TRUE,
           v |-> Decimal(neg, ToInt(SubSeq(s, p, q - 1) \o fracDigits),
                         exp - Len(fracDigits)),
           i |-> z]

\* The position of the quote closing the string whose content starts at j, or
\* 0: a raw control character may not occur in a JSON string.
RECURSIVE StringEnd(_, _)
StringEnd(s, j) ==
  IF j > Len(s) THEN 0
  ELSE IF IsWs(s[j]) /\ s[j] # " " THEN 0
  ELSE IF s[j] = "\"" THEN j
  ELSE StringEnd(s, j + 1)

ReadString(s, i) ==
  LET j == StringEnd(s, i + 1) IN
  IF At(s, i) # "\"" \/ j = 0 THEN ReadFail
  ELSE [ok |-> TRUE, v |-> [t |-> "str", s |-> SubSeq(s, i + 1, j - 1)], i |-> j + 1]

ReadLiteral(s, i, word, v) ==
  IF i + Len(word) - 1 <= Len(s) /\ SubSeq(s, i, i + Len(word) - 1) = word
    THEN [ok |-> TRUE, v |-> v, i |-> i + Len(word)]
    ELSE ReadFail

RECURSIVE ReadValue(_, _), ReadMembers(_, _, _), ReadElements(_, _, _)

\* The value starting at position i (no whitespace before it).
ReadValue(s, i) ==
  LET c == At(s, i) IN
  IF c = "{" THEN
    LET j == SkipWs(s, i + 1) IN
    IF At(s, j) = "}"
      THEN [ok |-> TRUE, v |-> [t |-> "obj", props |-> << >>], i |-> j + 1]
      ELSE ReadMembers(s, j, << >>)
  ELSE IF c = "[" THEN
    LET j == SkipWs(s, i + 1) IN
    IF At(s, j) = "]"
      THEN [ok |-> TRUE, v |-> [t |-> "arr", items |-> << >>], i |-> j + 1]
      ELSE ReadElements(s, j, << >>)
  ELSE IF c = "\"" THEN ReadString(s, i)
  ELSE IF c = "t" THEN ReadLiteral(s, i, << "t", "r", "u", "e" >>, [t |-> "bool", b |-> TRUE])
  ELSE IF c = "f"
    THEN ReadLiteral(s, i, << "f", "a", "l", "s", "e" >>, [t |-> "bool", b |-> FALSE])
  ELSE IF c = "n" THEN ReadLiteral(s, i, << "n", "u", "l", "l" >>, [t |-> "null"])
  ELSE IF c = "-" \/ IsDigit(c) THEN ReadNumber(s, i)
  ELSE ReadFail

\* The members of an object from position j (a key), after the members acc.
ReadMembers(s, j, acc) ==
  LET key == ReadString(s, j) IN
  IF ~key.ok THEN ReadFail
  ELSE LET c == SkipWs(s, key.i) IN
    IF At(s, c) # ":" THEN ReadFail
    ELSE LET val == ReadValue(s, SkipWs(s, c + 1)) IN
      IF ~val.ok THEN ReadFail
      ELSE LET n == SkipWs(s, val.i)
               all == Append(acc, [k |-> key.v.s, v |-> val.v])
           IN IF At(s, n) = "," THEN ReadMembers(s, SkipWs(s, n + 1), all)
              ELSE IF At(s, n) = "}"
                THEN [ok |-> TRUE, v |-> [t |-> "obj", props |-> all], i |-> n + 1]
              ELSE ReadFail

\* The elements of an array from position j, after the elements acc.
ReadElements(s, j, acc) ==
  LET val == ReadValue(s, j) IN
  IF ~val.ok THEN ReadFail
  ELSE LET n == SkipWs(s, val.i)
           all == Append(acc, val.v)
       IN IF At(s, n) = "," THEN ReadElements(s, SkipWs(s, n + 1), all)
          ELSE IF At(s, n) = "]"
            THEN [ok |-> TRUE, v |-> [t |-> "arr", items |-> all], i |-> n + 1]
          ELSE ReadFail

\* A whole text: one value, whitespace around it, nothing else.
JsonRead(text) ==
  LET r == ReadValue(text, SkipWs(text, 1)) IN
  IF r.ok /\ SkipWs(text, r.i) = Len(text) + 1
    THEN [ok |-> TRUE, v |-> r.v]
    ELSE [ok |-> FALSE, v |-> [t |-> "null"]]

(***************************************************************************)
(* JavaScript values                                                       *)
(*                                                                         *)
(* As the document values, except that a Number is an IEEE-754 double:     *)
(* [t |-> "num", neg, m, e] when finite, [t |-> "inf", neg] when not; an   *)
(* object's props hold each key once, in creation order; and an array has  *)
(* props too, its own properties that are no elements.                     *)
(***************************************************************************)

\* The double nearest to a decimal of at most 9 digits. Above the largest
\* double (1.7976931348623157e308) it is Infinity, below the smallest
\* subnormal it is 0; between them a decimal this short reads back as itself
\* (the subnormal range, where it would not, is outside the inputs drawn).
ToDouble(d) ==
  LET k == NumDigits(d.m)
      n == d.e + k
      lead == d.m * Pow10(9 - k)
  IN IF d.m = 0 THEN d
     ELSE IF n >= 310 \/ (n = 309 /\ lead >= 179769314) THEN [t |-> "inf", neg |-> d.neg]
     ELSE IF n <= -324 THEN [t |-> "num", neg |-> d.neg, m |-> 0, e |-> 0]
     ELSE d

HasProp(props, k) == \E i \in 1..Len(props) : props[i].k = k

\* CreateDataProperty / [[Set]] on an ordinary object: an existing key keeps
\* its place and takes the new value, a new key is created last.
SetProp(props, k, v) ==
  IF HasProp(props, k)
    THEN [i \in 1..Len(props) |-> IF props[i].k = k THEN [k |-> k, v |-> v] ELSE props[i]]
    ELSE Append(props, [k |-> k, v |-> v])

RECURSIVE ToJS(_), DefineAll(_, _)

\* The properties after defining the members ms, in order, on props.
DefineAll(props, ms) ==
  IF Len(ms) = 0 THEN props
  ELSE DefineAll(SetProp(props, ms[1].k, ToJS(ms[1].v)), Tail(ms))

\* InternalizeJSONProperty: the JavaScript value JSON.parse builds for a
\* document value.
ToJS(d) ==
  IF d.t = "num" THEN ToDouble(d)
  ELSE IF d.t = "arr"
    THEN [t |-> "arr", items |-> [i \in 1..Len(d.items) |-> ToJS(d.items[i])],
          props |-> << >>]
  ELSE IF d.t = "obj" THEN [t |-> "obj", props |-> DefineAll(<< >>, d.props)]
  ELSE d

\* A faulty JSON.parse that reads a text that is no JSON as the empty object.
JSONParseLenient(text) ==
  LET r == JsonRead(text) IN
  IF r.ok THEN [ok |-> TRUE, v |-> ToJS(r.v)]
  ELSE [ok |-> TRUE, v |-> [t |-> "obj", props |-> << >>]]

\* JSON.parse(text) (line 25): the value, or a SyntaxError.
JSONParse(text) ==
  LET r == JsonRead(text) IN
  IF r.ok THEN [ok |-> TRUE, v |-> ToJS(r.v)] ELSE [ok |-> FALSE, v |-> [t |-> "null"]]

\* typeof v === "object" && v !== null: what a property can be set on.
IsJSObject(v) == v.t \in {"obj", "arr"}

(***************************************************************************)
(* JSON.stringify                                                          *)
(***************************************************************************)

\* The decimal digits of n >= 0.
RECURSIVE IntToText(_)
IntToText(n) ==
  IF n < 10 THEN << Digits[n + 1] >>
  ELSE IntToText(n \div 10) \o << Digits[(n % 10) + 1] >>

Zeros(n) == [i \in 1..n |-> "0"]

\* Number::toString(x, 10) of a finite double with digits ds and n = e + k.
NumberToString(x) ==
  LET ds == IntToText(x.m)
      k == Len(ds)
      n == x.e + k
      sign == IF x.neg THEN << "-" >> ELSE << >>
      ex == n - 1
      exText == (IF ex < 0 THEN << "-" >> ELSE << "+" >>)
                \o IntToText(IF ex < 0 THEN 0 - ex ELSE ex)
  IN IF x.m = 0 THEN << "0" >>
     ELSE IF k <= n /\ n <= 21 THEN sign \o ds \o Zeros(n - k)
     ELSE IF 0 < n /\ n <= 21
       THEN sign \o SubSeq(ds, 1, n) \o << "." >> \o SubSeq(ds, n + 1, k)
     ELSE IF -6 < n /\ n <= 0 THEN sign \o << "0", "." >> \o Zeros(0 - n) \o ds
     ELSE IF k = 1 THEN sign \o ds \o << "e" >> \o exText
     ELSE sign \o << ds[1], "." >> \o SubSeq(ds, 2, k) \o << "e" >> \o exText

\* A canonical array index: "0", or digits without a leading zero (keys of
\* ten digits or more are outside the inputs drawn).
IsArrayIndex(k) ==
  /\ Len(k) >= 1 /\ Len(k) <= 9
  /\ \A i \in 1..Len(k) : IsDigit(k[i])
  /\ (Len(k) = 1 \/ k[1] # "0")

\* The properties whose keys are array indices, ascending.
RECURSIVE IndexProps(_)
IndexProps(props) ==
  LET idx == {i \in 1..Len(props) : IsArrayIndex(props[i].k)} IN
  IF idx = {} THEN << >>
  ELSE LET lo == CHOOSE i \in idx : \A j \in idx : ToInt(props[i].k) <= ToInt(props[j].k)
       IN << props[lo] >>
          \o IndexProps([i \in 1..(Len(props) - 1) |->
                          IF i < lo THEN props[i] ELSE props[i + 1]])

RECURSIVE NamedProps(_)
NamedProps(props) ==
  IF Len(props) = 0 THEN << >>
  ELSE (IF IsArrayIndex(props[1].k) THEN << >> ELSE << props[1] >>)
       \o NamedProps(Tail(props))

\* OrdinaryOwnPropertyKeys: array indices ascending, then the other keys in
\* creation order.
OwnProps(props) == IndexProps(props) \o NamedProps(props)

\* QuoteJSONString: over this alphabet nothing needs an escape.
QuoteJSONString(s) == << "\"" >> \o s \o << "\"" >>

RECURSIVE SerializeJSON(_), SerializeMembers(_), SerializeElements(_)

\* SerializeJSONProperty: JSON.stringify(v). A non-finite number is "null";
\* an array gives its elements only, never its other properties.
SerializeJSON(v) ==
  IF v.t = "null" THEN << "n", "u", "l", "l" >>
  ELSE IF v.t = "bool"
    THEN (IF v.b THEN << "t", "r", "u", "e" >> ELSE << "f", "a", "l", "s", "e" >>)
  ELSE IF v.t = "str" THEN QuoteJSONString(v.s)
  ELSE IF v.t = "num" THEN NumberToString(v)
  ELSE IF v.t = "inf" THEN << "n", "u", "l", "l" >>
  ELSE IF v.t = "arr" THEN << "[" >> \o SerializeElements(v.items) \o << "]" >>
  ELSE << "{" >> \o SerializeMembers(OwnProps(v.props)) \o << "}" >>

SerializeMembers(ps) ==
  IF Len(ps) = 0 THEN << >>
  ELSE QuoteJSONString(ps[1].k) \o << ":" >> \o SerializeJSON(ps[1].v)
       \o (IF Len(ps) = 1 THEN << >> ELSE << "," >> \o SerializeMembers(Tail(ps)))

SerializeElements(vs) ==
  IF Len(vs) = 0 THEN << >>
  ELSE SerializeJSON(vs[1])
       \o (IF Len(vs) = 1 THEN << >> ELSE << "," >> \o SerializeElements(Tail(vs)))

(***************************************************************************)
(* WebCrypto and djwt                                                      *)
(***************************************************************************)

\* A stand-in for SHA-256 that has no collisions: the digest of a message
\* stands for the message itself.
Sha256(m) == m

\* The key block K0 of HMAC (RFC 2104): a key longer than the block is hashed
\* first; the key is then padded with zero bytes to the block size.
HmacKeyBlock(keyData) ==
  LET k == IF Len(keyData) > BlockSize THEN Sha256(keyData) ELSE keyData
  IN k \o [i \in 1..(BlockSize - Len(k)) |-> 0]

\* crypto.subtle.sign("HMAC", key, data): the MAC is a function of the key
\* block and the message and of nothing else; as for Sha256, it stands for
\* the pair it was computed from.
HmacSign(keyData, data) == HmacKeyBlock(keyData) \o data

\* crypto.subtle.importKey("raw", keyBuf, {name: "HMAC", hash: "SHA-256"},
\* true, ["sign", "verify"]) (lines 10-16): the promise rejects with a
\* DataError for key material of length zero.
ImportKeyRejects(keyBuf) == Len(keyBuf) = 0

ImportedKey(keyBuf) ==
  [t |-> "CryptoKey", name |-> "HMAC", hash |-> "SHA-256", extractable |-> TRUE,
   usages |-> {"sign", "verify"}, data |-> keyBuf]

Undefined == [t |-> "undefined"]

\* const algorithm = "HS256" (line 18).
algorithm == "HS256"

\* The header object (lines 20-23), as a JavaScript value.
HeaderObject ==
  [t |-> "obj",
   props |-> << [k |-> << "a", "l", "g" >>,
                 v |-> [t |-> "str", s |-> << "H", "S", "2", "5", "6" >>]],
               [k |-> << "t", "y", "p" >>,
                 v |-> [t |-> "str", s |-> << "J", "W", "T" >>]] >>]

\* djwt's verifyAlgorithm(alg, key): the key's algorithm is the one alg names.
VerifyAlgorithm(alg, k) ==
  alg = "HS256" /\ k.t = "CryptoKey" /\ k.name = "HMAC" /\ k.hash = "SHA-256"

\* A faulty getNumericDate that does not read the clock.
GetNumericDateNoClock(exp, nowMs) == exp

\* djwt's getNumericDate(exp) for a number of seconds:
\* Math.round((Date.now() + exp * 1000) / 1000).
GetNumericDate(exp, nowMs) == (nowMs + exp * 1000 + 500) \div 1000

\* A faulty assignment that keeps an exp the payload already has.
AssignExpIfAbsent(data, v) ==
  IF HasProp(data.props, << "e", "x", "p" >>) THEN data
  ELSE [data EXCEPT !.props = Append(@, [k |-> << "e", "x", "p" >>,
                                         v |-> Decimal(FALSE, v, 0)])]

\* payloadData.exp = v (line 27), on an object or an array.
AssignExp(data, v) ==
  [data EXCEPT !.props = SetProp(@, << "e", "x", "p" >>, Decimal(FALSE, v, 0))]

\* A faulty createSigningInput that takes its arguments in the other order.
CreateSigningInputSwapped(h, p) ==
  EncodeBase64Url(Utf8Encode(CodeUnits(SerializeJSON(p))))
  \o << "." >> \o EncodeBase64Url(Utf8Encode(CodeUnits(SerializeJSON(h))))

\* djwt's createSigningInput(header, payload).
CreateSigningInput(h, p) ==
  EncodeBase64Url(Utf8Encode(CodeUnits(SerializeJSON(h))))
  \o << "." >> \o EncodeBase64Url(Utf8Encode(CodeUnits(SerializeJSON(p))))

\* A faulty createSignature that signs with an empty key.
CreateSignatureNoKey(k, input) ==
  EncodeBase64Url(HmacSign(<< >>, Utf8Encode(CodeUnits(input))))

\* djwt's createSignature(alg, key, signingInput).
CreateSignature(k, input) ==
  EncodeBase64Url(HmacSign(k.data, Utf8Encode(CodeUnits(input))))

\* What create() returns: `${signingInput}.${signature}`.
CreateToken(k, input) == input \o << "." >> \o CreateSignature(k, input)

(***************************************************************************)
(* Inputs                                                                  *)
(***************************************************************************)

\* the object of the specification's example: {"sub":"u1"}
PObjSub == << "{", "\"", "s", "u", "b", "\"", ":", "\"", "u", "1", "\"", "}" >>

\* an object with a caller-supplied exp and nested values: {"exp":5,"n":[1,{"b":null}]}
PObjExp == << "{", "\"", "e", "x", "p", "\"", ":", "5", ",", "\"", "n", "\"", ":", "[", "1", ",", "{", "\"", "b", "\"", ":", "n", "u", "l", "l", "}", "]", "}" >>

\* an object whose keys are named like the header's: {"alg":"none","typ":"X"}
PObjAlg == << "{", "\"", "a", "l", "g", "\"", ":", "\"", "n", "o", "n", "e", "\"", ",", "\"", "t", "y", "p", "\"", ":", "\"", "X", "\"", "}" >>

\* an object with a number above the largest double: {"a":1e999}
PObjHuge == << "{", "\"", "a", "\"", ":", "1", "e", "9", "9", "9", "}" >>

\* whitespace, an index key after a named key, a string exp:  { "b" : 2.5 , "1" : true, "exp" : "x" } 
PObjOrder == << " ", "{", " ", "\"", "b", "\"", " ", ":", " ", "2", ".", "5", " ", ",", " ", "\"", "1", "\"", " ", ":", " ", "t", "r", "u", "e", ",", " ", "\"", "e", "x", "p", "\"", " ", ":", " ", "\"", "x", "\"", " ", "}", " " >>

\* the empty object: {}
PObjEmpty == << "{", "}" >>

\* an array: [1,2,3]
PArray == << "[", "1", ",", "2", ",", "3", "]" >>

\* null: null
PNull == << "n", "u", "l", "l" >>

\* a number: 42
PNumber == << "4", "2" >>

\* a string: "s"
PString == << "\"", "s", "\"" >>

\* a boolean: true
PBool == << "t", "r", "u", "e" >>

\* no JSON: not json
PNotJson == << "n", "o", "t", " ", "j", "s", "o", "n" >>

\* no JSON: a trailing comma: {"a":1,}
PTrailing == << "{", "\"", "a", "\"", ":", "1", ",", "}" >>

\* no JSON: the empty text: (nothing)
PEmpty == << >>

PayloadTexts ==
  { PObjSub, PObjExp, PObjAlg, PObjHuge, PObjOrder,
    PObjEmpty, PArray, PNull, PNumber, PString,
    PBool, PNotJson, PTrailing, PEmpty }

\* Secrets, as UTF-16 code units: "", "a", "a" NUL, "b", e-acute, a lone high
\* surrogate, a lone low surrogate, and a surrogate pair (U+1F600).
Secrets ==
  { << >>, << 97 >>, << 97, 0 >>, << 98 >>, << 233 >>, << 55296 >>, << 56320 >>,
    << 55357, 56832 >> }

\* The inputs of two calls in flight at once.
ConcPayloadTexts == { PObjExp, PNotJson }
ConcSecrets == { << >>, << 97 >>, << 98 >> }

(***************************************************************************)
(* The calls of main                                                       *)
(*                                                                         *)
(* A call runs one statement per step. Between two awaits it runs alone    *)
(* (running is its id): JavaScript runs a job to completion. At an await   *)
(* (importKey, line 10; create, line 29) it gives up the thread, and       *)
(* resumes once its promise is settled and the thread is free.             *)
(***************************************************************************)

Calls == {1, 2}

VARIABLES
  pc,            \* per call: the statement it is at
  secret_key,    \* per call: the argument secret_key
  payload,       \* per call: the argument payload
  keyBuf,        \* per call: var keyBuf (line 8)
  key,           \* per call: var key (line 10)
  header,        \* per call: const header (line 20)
  payloadData,   \* per call: let payloadData (line 25)
  nowRead,       \* per call: what Date.now() returned at line 27, or -1
  promise,       \* per call: the promise it awaits: its state and its value
  token,         \* per call: const token (line 29), << >> until assigned
  result,        \* per call: what main returned, << >> if nothing
  error,         \* per call: what main threw, and at which statement
  stdout,        \* the lines written by console.log
  running,       \* the call that holds the thread, or 0
  now,           \* Date.now(), in milliseconds
  createChecksObject  \* whether this build of djwt's create() rejects a
                      \* payload that is no plain object

vars == << pc, secret_key, payload, keyBuf, key, header, payloadData, nowRead,
           promise, token, result, error, stdout, running, now,
           createChecksObject >>

NoError == [name |-> "none", at |-> "none"]
NoPromise == [state |-> "none", value |-> << >>]

Init ==
  /\ pc = [i \in Calls |-> "idle"]
  /\ secret_key = [i \in Calls |-> << >>]
  /\ payload = [i \in Calls |-> << >>]
  /\ keyBuf = [i \in Calls |-> << >>]
  /\ key = [i \in Calls |-> Undefined]
  /\ header = [i \in Calls |-> Undefined]
  /\ payloadData = [i \in Calls |-> Undefined]
  /\ nowRead = [i \in Calls |-> -1]
  /\ promise = [i \in Calls |-> NoPromise]
  /\ token = [i \in Calls |-> << >>]
  /\ result = [i \in Calls |-> << >>]
  /\ error = [i \in Calls |-> NoError]
  /\ stdout = << >>
  /\ running = 0
  /\ now = 0
  /\ createChecksObject \in BOOLEAN

\* main throws: the call ends with the error and frees the thread.
Throw(i, name) ==
  /\ pc' = [pc EXCEPT ![i] = "failed"]
  /\ error' = [error EXCEPT ![i] = [name |-> name, at |-> pc[i]]]
  /\ running' = 0

\* main({secret_key, payload}) is called (line 3).
Call(i, S, P) ==
  /\ pc[i] = "idle" /\ running = 0
  /\ secret_key' = [secret_key EXCEPT ![i] = S]
  /\ payload' = [payload EXCEPT ![i] = P]
  /\ pc' = [pc EXCEPT ![i] = "encode"]
  /\ running' = i
  /\ UNCHANGED << keyBuf, key, header, payloadData, nowRead, promise, token,
                  result, error, stdout, now, createChecksObject >>

\* A faulty order of statements: the payload is parsed before the key is
\* imported.
EncodeThenParse(i) ==
  /\ pc[i] = "encode" /\ running = i
  /\ keyBuf' = [keyBuf EXCEPT ![i] = Utf8Encode(secret_key[i])]
  /\ IF JSONParse(payload[i]).ok
       THEN /\ pc' = [pc EXCEPT ![i] = "importKey"]
            /\ UNCHANGED << error, running >>
       ELSE Throw(i, "SyntaxError")
  /\ UNCHANGED << secret_key, payload, key, header, payloadData, nowRead, promise,
                  token, result, stdout, now, createChecksObject >>

\* let encoder = new TextEncoder(); var keyBuf = encoder.encode(secret_key)
\* (lines 7-8).
Encode(i) ==
  /\ pc[i] = "encode" /\ running = i
  /\ keyBuf' = [keyBuf EXCEPT ![i] = Utf8Encode(secret_key[i])]
  /\ pc' = [pc EXCEPT ![i] = "importKey"]
  /\ UNCHANGED << secret_key, payload, key, header, payloadData, nowRead, promise,
                  token, result, error, stdout, running, now, createChecksObject >>

\* crypto.subtle.importKey(...) is called and awaited (lines 10-16).
ImportKey(i) ==
  /\ pc[i] = "importKey" /\ running = i
  /\ promise' = [promise EXCEPT ![i] =
       IF ImportKeyRejects(keyBuf[i])
         THEN [state |-> "rejected", value |-> "DataError"]
         ELSE [state |-> "fulfilled", value |-> ImportedKey(keyBuf[i])]]
  /\ pc' = [pc EXCEPT ![i] = "awaitImportKey"]
  /\ running' = 0
  /\ UNCHANGED << secret_key, payload, keyBuf, key, header, payloadData, nowRead,
                  token, result, error, stdout, now, createChecksObject >>

\* A faulty import that keeps the first key imported for every later call.
ImportKeySettledCached(i) ==
  /\ pc[i] = "awaitImportKey" /\ running = 0
  /\ promise' = [promise EXCEPT ![i] = NoPromise]
  /\ IF promise[i].state = "rejected"
       THEN /\ Throw(i, promise[i].value)
            /\ UNCHANGED key
       ELSE /\ key' = [key EXCEPT ![i] =
                 IF \E j \in Calls : key[j] # Undefined
                   THEN key[CHOOSE j \in Calls : key[j] # Undefined]
                   ELSE promise[i].value]
            /\ pc' = [pc EXCEPT ![i] = "header"]
            /\ running' = i
            /\ UNCHANGED error
  /\ UNCHANGED << secret_key, payload, keyBuf, header, payloadData, nowRead, token,
                  result, stdout, now, createChecksObject >>

\* The await of line 10 resumes: key is assigned, or the rejection is thrown.
ImportKeySettled(i) ==
  /\ pc[i] = "awaitImportKey" /\ running = 0
  /\ promise' = [promise EXCEPT ![i] = NoPromise]
  /\ IF promise[i].state = "rejected"
       THEN /\ Throw(i, promise[i].value)
            /\ UNCHANGED key
       ELSE /\ key' = [key EXCEPT ![i] = promise[i].value]
            /\ pc' = [pc EXCEPT ![i] = "header"]
            /\ running' = i
            /\ UNCHANGED error
  /\ UNCHANGED << secret_key, payload, keyBuf, header, payloadData, nowRead, token,
                  result, stdout, now, createChecksObject >>

\* const header = { alg: algorithm, typ: "JWT" } (lines 18-23).
MakeHeader(i) ==
  /\ pc[i] = "header" /\ running = i
  /\ header' = [header EXCEPT ![i] = HeaderObject]
  /\ pc' = [pc EXCEPT ![i] = "parse"]
  /\ UNCHANGED << secret_key, payload, keyBuf, key, payloadData, nowRead, promise,
                  token, result, error, stdout, running, now, createChecksObject >>

\* let payloadData = JSON.parse(payload) (line 25).
Parse(i) ==
  /\ pc[i] = "parse" /\ running = i
  /\ LET r == JSONParse(payload[i]) IN
     IF r.ok
       THEN /\ payloadData' = [payloadData EXCEPT ![i] = r.v]
            /\ pc' = [pc EXCEPT ![i] = "setExp"]
            /\ UNCHANGED << error, running >>
       ELSE /\ Throw(i, "SyntaxError")
            /\ UNCHANGED payloadData
  /\ UNCHANGED << secret_key, payload, keyBuf, key, header, nowRead, promise, token,
                  result, stdout, now, createChecksObject >>

\* payloadData.exp = getNumericDate(1000) (line 27). The module is strict
\* code: setting a property of null or of a primitive throws a TypeError.
SetExp(i) ==
  /\ pc[i] = "setExp" /\ running = i
  /\ nowRead' = [nowRead EXCEPT ![i] = now]
  /\ IF IsJSObject(payloadData[i])
       THEN /\ payloadData' = [payloadData EXCEPT ![i] =
                 AssignExp(@, GetNumericDate(Lifetime, now))]
            /\ pc' = [pc EXCEPT ![i] = "create"]
            /\ UNCHANGED << error, running >>
       ELSE /\ Throw(i, "TypeError")
            /\ UNCHANGED payloadData
  /\ UNCHANGED << secret_key, payload, keyBuf, key, header, promise, token, result,
                  stdout, now, createChecksObject >>

\* A faulty call of create that writes the signing input before it is signed.
CreateLogsFirst(i) ==
  /\ pc[i] = "create" /\ running = i
  /\ stdout' = Append(stdout, CreateSigningInput(header[i], payloadData[i]))
  /\ promise' = [promise EXCEPT ![i] =
       IF (createChecksObject /\ payloadData[i].t # "obj")
          \/ ~VerifyAlgorithm(algorithm, key[i])
         THEN [state |-> "rejected", value |-> "Error"]
         ELSE [state |-> "fulfilled",
               value |-> CreateToken(key[i],
                                     CreateSigningInput(header[i], payloadData[i]))]]
  /\ pc' = [pc EXCEPT ![i] = "awaitCreate"]
  /\ running' = 0
  /\ UNCHANGED << secret_key, payload, keyBuf, key, header, payloadData, nowRead,
                  token, result, error, now, createChecksObject >>

\* create(header, payloadData, key) is called and awaited (line 29): create
\* checks the algorithm against the key, builds the signing input and signs.
\* djwt is imported by URL (line 1) and its text is not among the sources:
\* whether create rejects a claims set that is no plain object (here: an
\* array, the one such value that gets past line 27) is left open, and both
\* behaviours are kept (createChecksObject).
Create(i) ==
  /\ pc[i] = "create" /\ running = i
  /\ promise' = [promise EXCEPT ![i] =
       IF (createChecksObject /\ payloadData[i].t # "obj")
          \/ ~VerifyAlgorithm(algorithm, key[i])
         THEN [state |-> "rejected", value |-> "Error"]
         ELSE [state |-> "fulfilled",
               value |-> CreateToken(key[i],
                                     CreateSigningInput(header[i], payloadData[i]))]]
  /\ pc' = [pc EXCEPT ![i] = "awaitCreate"]
  /\ running' = 0
  /\ UNCHANGED << secret_key, payload, keyBuf, key, header, payloadData, nowRead,
                  token, result, error, stdout, now, createChecksObject >>

\* The await of line 29 resumes: token is assigned, or the rejection is thrown.
CreateSettled(i) ==
  /\ pc[i] = "awaitCreate" /\ running = 0
  /\ promise' = [promise EXCEPT ![i] = NoPromise]
  /\ IF promise[i].state = "rejected"
       THEN /\ Throw(i, promise[i].value)
            /\ UNCHANGED token
       ELSE /\ token' = [token EXCEPT ![i] = promise[i].value]
            /\ pc' = [pc EXCEPT ![i] = "log"]
            /\ running' = i
            /\ UNCHANGED error
  /\ UNCHANGED << secret_key, payload, keyBuf, key, header, payloadData, nowRead,
                  result, stdout, now, createChecksObject >>

\* console.log(token) (line 30).
Log(i) ==
  /\ pc[i] = "log" /\ running = i
  /\ stdout' = Append(stdout, token[i])
  /\ pc' = [pc EXCEPT ![i] = "return"]
  /\ UNCHANGED << secret_key, payload, keyBuf, key, header, payloadData, nowRead,
                  promise, token, result, error, running, now, createChecksObject >>

\* return token (line 32).
Return(i) ==
  /\ pc[i] = "return" /\ running = i
  /\ result' = [result EXCEPT ![i] = token[i]]
  /\ pc' = [pc EXCEPT ![i] = "done"]
  /\ running' = 0
  /\ UNCHANGED << secret_key, payload, keyBuf, key, header, payloadData, nowRead,
                  promise, token, error, stdout, now, createChecksObject >>

\* Time passes.
Tick ==
  /\ now < MaxTicks * TickMs
  /\ now' = now + TickMs
  /\ UNCHANGED << pc, secret_key, payload, keyBuf, key, header, payloadData, nowRead,
                  promise, token, result, error, stdout, running,
                  createChecksObject >>

\* One call, with any of the inputs.
Next ==
  \/ \E S \in Secrets, P \in PayloadTexts : Call(1, S, P)
  \/ Encode(1)
  \/ ImportKey(1)
  \/ ImportKeySettled(1)
  \/ MakeHeader(1)
  \/ Parse(1)
  \/ SetExp(1)
  \/ Create(1)
  \/ CreateSettled(1)
  \/ Log(1)
  \/ Return(1)
  \/ Tick

Spec == Init /\ [][Next]_vars

\* Two calls in flight at once.
NextConc ==
  \/ \E i \in Calls, S \in ConcSecrets, P \in ConcPayloadTexts : Call(i, S, P)
  \/ \E i \in Calls : Encode(i)
  \/ \E i \in Calls : ImportKey(i)
  \/ \E i \in Calls : ImportKeySettled(i)
  \/ \E i \in Calls : MakeHeader(i)
  \/ \E i \in Calls : Parse(i)
  \/ \E i \in Calls : SetExp(i)
  \/ \E i \in Calls : Create(i)
  \/ \E i \in Calls : CreateSettled(i)
  \/ \E i \in Calls : Log(i)
  \/ \E i \in Calls : Return(i)
  \/ Tick

SpecConc == Init /\ [][NextConc]_vars

(***************************************************************************)
(* Reading a token back                                                    *)
(***************************************************************************)

B64Val(c) == (CHOOSE i \in 1..64 : B64Alphabet[i] = c) - 1

\* The bytes a base64url text without padding stands for.
DecodeBase64Url(cs) ==
  LET val(j) == IF j <= Len(cs) THEN B64Val(cs[j]) ELSE 0
      byte(k) ==
        LET g == 4 * ((k - 1) \div 3)
            r == (k - 1) % 3
        IN IF r = 0 THEN val(g + 1) * 4 + (val(g + 2) \div 16)
           ELSE IF r = 1 THEN (val(g + 2) % 16) * 16 + (val(g + 3) \div 4)
           ELSE (val(g + 3) % 4) * 64 + val(g + 4)
  IN [k \in 1..((3 * Len(cs)) \div 4) |-> byte(k)]

\* The text of ASCII bytes.
TextOfBytes(b) == [i \in 1..Len(b) |-> CharOf(b[i])]

\* The segments of a text between its dots.
RECURSIVE Segments(_)
Segments(s) ==
  IF \A i \in 1..Len(s) : s[i] # "." THEN << s >>
  ELSE LET d == CHOOSE i \in 1..Len(s) : s[i] = "." /\ \A j \in 1..(i - 1) : s[j] # "."
       IN << SubSeq(s, 1, d - 1) >> \o Segments(SubSeq(s, d + 1, Len(s)))

IsB64Text(s) == \A i \in 1..Len(s) : \E j \in 1..64 : B64Alphabet[j] = s[i]

\* The JSON text in segment n of a token, and the document it holds.
SegmentText(tok, n) == TextOfBytes(DecodeBase64Url(Segments(tok)[n]))
ClaimsOf(tok) == JsonRead(SegmentText(tok, 2))

\* The members of a document object as a mapping: the value of key k is that
\* of its last member named k.
Keys(d) == {d.props[i].k : i \in 1..Len(d.props)}
ValueOf(d, k) ==
  d.props[CHOOSE i \in 1..Len(d.props) :
            d.props[i].k = k /\ \A j \in (i + 1)..Len(d.props) : d.props[j].k # k].v

ExpKey == << "e", "x", "p" >>

\* Two document objects agree on every key other than exp.
SameButExp(d1, d2) ==
  /\ Keys(d1) \ {ExpKey} = Keys(d2) \ {ExpKey}
  /\ \A k \in Keys(d1) \ {ExpKey} : ValueOf(d1, k) = ValueOf(d2, k)

\* The integer a document number stands for, when it is one.
IsInteger(d) == d.t = "num" /\ ~d.neg /\ d.e >= 0
IntegerOf(d) == d.m * Pow10(d.e)

\* The payload text of call i is a JSON object.
IsObjectText(i) == JsonRead(payload[i]).ok /\ JsonRead(payload[i]).v.t = "obj"

Returned(i) == pc[i] = "done"

\* Verifying an HS256 token with a secret: the secret is imported as the key
\* and the MAC of the first two segments is computed again.
Verifies(tok, S) ==
  LET segs == Segments(tok) IN
  /\ Len(segs) = 3
  /\ ~ImportKeyRejects(Utf8Encode(S))
  /\ DecodeBase64Url(segs[3])
       = HmacSign(Utf8Encode(S), Utf8Encode(CodeUnits(segs[1] \o << "." >> \o segs[2])))

\* {"alg":"HS256","typ":"JWT"}
HeaderText == << "{", "\"", "a", "l", "g", "\"", ":", "\"", "H", "S", "2", "5", "6", "\"", ",", "\"", "t", "y", "p", "\"", ":", "\"", "J", "W", "T", "\"", "}" >>

(***************************************************************************)
(* The claims                                                              *)
(***************************************************************************)

\* C1: for a payload text that is a JSON object, with or without an exp of
\* the caller's, the token a call returns carries exactly one exp, and it is
\* the clock reading at issuance plus the lifetime of 1000 seconds, as a whole
\* number of seconds (the nearest one): the caller's exp is not in the token.
C1_ExpIsIssuancePlusLifetime ==
  \A i \in Calls :
    Returned(i) /\ IsObjectText(i) =>
      LET c == ClaimsOf(result[i]) IN
      /\ c.ok /\ c.v.t = "obj"
      /\ Cardinality({n \in 1..Len(c.v.props) : c.v.props[n].k = ExpKey}) = 1
      /\ IsInteger(ValueOf(c.v, ExpKey))
      /\ LET d == IntegerOf(ValueOf(c.v, ExpKey)) * 1000
                  - (nowRead[i] + Lifetime * 1000)
         IN -500 < d /\ d <= 500

C1_Witness ==
  /\ Returned(1) /\ payload[1] = PObjExp /\ nowRead[1] = 2 * TickMs
  /\ ValueOf(JsonRead(payload[1]).v, ExpKey) # ValueOf(ClaimsOf(result[1]).v, ExpKey)

\* C2: a payload text that is JSON but no object (an array, a scalar, null)
\* makes the call fail while the payload is handled, and no token is returned.
C2_NonObjectFails ==
  \A i \in Calls :
    JsonRead(payload[i]).ok /\ ~IsObjectText(i) /\ secret_key[i] # << >> =>
      /\ ~Returned(i) /\ result[i] = << >>
      /\ pc[i] = "failed" => error[i].name \in {"TypeError", "Error"}

\* C3 as stated: whatever the secret, a payload text that is no JSON makes the
\* call end with the error of the parse step.
C3_Original ==
  \A i \in Calls :
    pc[i] \in {"failed", "done"} /\ ~JsonRead(payload[i]).ok =>
      error[i] = [name |-> "SyntaxError", at |-> "parse"]

\* C3, amended: a call whose payload text is no JSON and whose secret is not
\* empty gets no further than the parse step, where it fails with the
\* SyntaxError of JSON.parse; exp is never set, nothing is signed, no token is
\* returned.
C3_NotJsonFailsAtParse ==
  \A i \in Calls :
    pc[i] # "idle" /\ ~JsonRead(payload[i]).ok /\ secret_key[i] # << >> =>
      /\ pc[i] \in {"encode", "importKey", "awaitImportKey", "header", "parse", "failed"}
      /\ pc[i] = "failed" => error[i] = [name |-> "SyntaxError", at |-> "parse"]
      /\ payloadData[i] = Undefined /\ nowRead[i] = -1
      /\ promise[i].state # "fulfilled" \/ pc[i] = "awaitImportKey"
      /\ token[i] = << >> /\ result[i] = << >> /\ stdout = << >>

C3_Witness ==
  /\ pc[1] = "failed" /\ payload[1] = PTrailing /\ secret_key[1] = << 97 >>
  /\ key[1] # Undefined

\* C4: for a payload text that is a JSON object and a secret that is not
\* empty, the call does not fail, and the token it returns has exactly three
\* segments between dots, each of base64url characters, the first of which
\* decodes to exactly {"alg":"HS256","typ":"JWT"}, whatever the keys of the
\* payload.
C4_HeaderIsFixed ==
  \A i \in Calls :
    IsObjectText(i) /\ secret_key[i] # << >> =>
      /\ pc[i] # "failed"
      /\ Returned(i) =>
           /\ Len(Segments(result[i])) = 3
           /\ \A n \in 1..3 : /\ Segments(result[i])[n] # << >>
                              /\ IsB64Text(Segments(result[i])[n])
           /\ SegmentText(result[i], 1) = HeaderText

C4_Witness == Returned(1) /\ payload[1] = PObjAlg /\ secret_key[1] = << 55296 >>

\* C5 as stated: the claims in the payload segment are those of the payload
\* text on every key other than exp, and exp is an integer between the time
\* of the call and that time plus 1000 seconds (and a second of tolerance).
C5_PayloadPreserved ==
  \A i \in Calls :
    Returned(i) /\ IsObjectText(i) =>
      LET c == ClaimsOf(result[i]) IN
      /\ c.ok /\ c.v.t = "obj"
      /\ SameButExp(c.v, JsonRead(payload[i]).v)
      /\ ExpKey \in Keys(c.v) /\ IsInteger(ValueOf(c.v, ExpKey))
      /\ IntegerOf(ValueOf(c.v, ExpKey)) * 1000 >= nowRead[i]
      /\ IntegerOf(ValueOf(c.v, ExpKey)) * 1000 <= nowRead[i] + (Lifetime + 1) * 1000

\* C6 as stated: the token verifies with the caller's secret and with no other.
C6_Original ==
  \A i \in Calls :
    Returned(i) =>
      \A S \in Secrets : Verifies(result[i], S) <=> S = secret_key[i]

\* C6, amended: the signature segment is the base64url of the HMAC of
\* headerSegment "." payloadSegment under the UTF-8 bytes of the caller's
\* secret; the token verifies with that secret, and with another secret
\* exactly when HMAC derives the same key block from it.
C6_SignedWithCallersSecret ==
  \A i \in Calls :
    Returned(i) =>
      LET segs == Segments(result[i]) IN
      /\ Len(segs) = 3
      /\ segs[3] = EncodeBase64Url(
                     HmacSign(Utf8Encode(secret_key[i]),
                              Utf8Encode(CodeUnits(segs[1] \o << "." >> \o segs[2]))))
      /\ Verifies(result[i], secret_key[i])
      /\ \A S \in Secrets \ {<< >>} :
           Verifies(result[i], S)
             <=> HmacKeyBlock(Utf8Encode(S)) = HmacKeyBlock(Utf8Encode(secret_key[i]))

C6_Witness ==
  /\ Returned(1) /\ secret_key[1] = << 97, 0 >>
  /\ Verifies(result[1], << 97 >>) /\ ~Verifies(result[1], << 98 >>)

\* C7 as stated: two issues for the same secret and payload at two different
\* times give two different tokens.
C7_Original ==
  \A i, j \in Calls :
    /\ Returned(i) /\ Returned(j)
    /\ secret_key[i] = secret_key[j] /\ payload[i] = payload[j]
    /\ nowRead[i] # nowRead[j]
    => result[i] # result[j]

\* C7, amended: two issues for the same secret and payload have the same
\* header segment; their tokens differ exactly when their times round to
\* different seconds, and then the payload segments differ in exp alone and
\* the signatures differ.
C7_TokensDifferByExp ==
  \A i, j \in Calls :
    /\ Returned(i) /\ Returned(j)
    /\ secret_key[i] = secret_key[j] /\ payload[i] = payload[j]
    => LET si == Segments(result[i])
           sj == Segments(result[j])
           ci == ClaimsOf(result[i]).v
           cj == ClaimsOf(result[j]).v
           sameSecond == (nowRead[i] + 500) \div 1000 = (nowRead[j] + 500) \div 1000
       IN /\ si[1] = sj[1]
          /\ SameButExp(ci, cj)
          /\ sameSecond <=> result[i] = result[j]
          /\ ~sameSecond => /\ ValueOf(ci, ExpKey) # ValueOf(cj, ExpKey)
                            /\ si[2] # sj[2] /\ si[3] # sj[3]

C7_Witness ==
  /\ Returned(1) /\ Returned(2)
  /\ secret_key[1] = secret_key[2] /\ payload[1] = payload[2]
  /\ nowRead[1] = TickMs /\ nowRead[2] = 3 * TickMs
  /\ result[1] # result[2]

\* C8: a call that has failed has an error, no token and no result and has
\* written nothing; every line of standard output is the token of a call whose
\* signing has succeeded and which is past its console.log.
C8_NoPartialResult ==
  /\ \A i \in Calls :
       pc[i] = "failed" =>
         /\ error[i] # NoError /\ token[i] = << >> /\ result[i] = << >>
         /\ \A n \in 1..Len(stdout) : \E j \in Calls \ {i} : stdout[n] = token[j]
  /\ \A i \in Calls : result[i] # << >> => pc[i] = "done" /\ result[i] = token[i]
  /\ Len(stdout) = Cardinality({i \in Calls : pc[i] \in {"return", "done"}})
  /\ \A n \in 1..Len(stdout) :
       \E i \in Calls : pc[i] \in {"return", "done"} /\ stdout[n] = token[i]

C8_Witness == pc[1] = "failed" /\ error[1].name = "TypeError" /\ stdout = << >>

\* C9: the steps run in one order: the key is imported from the encoded
\* secret before the payload is parsed, the payload is parsed before exp is
\* set, exp is set before anything is signed, and the token is assigned before
\* it is written or returned. A call with an empty secret fails with the
\* DataError of the key import, its payload never parsed, malformed or not.
C9_OneOrder ==
  \A i \in Calls :
    /\ key[i] # Undefined => key[i].data = Utf8Encode(secret_key[i])
    /\ header[i] # Undefined => key[i] # Undefined
    /\ payloadData[i] # Undefined => header[i] # Undefined
    /\ nowRead[i] # -1 => payloadData[i] # Undefined
    /\ token[i] # << >> => nowRead[i] # -1
    /\ result[i] # << >> => token[i] # << >>
    /\ secret_key[i] = << >> /\ pc[i] \notin {"idle", "encode", "importKey"} =>
         /\ pc[i] \in {"awaitImportKey", "failed"}
         /\ pc[i] = "failed" => error[i] = [name |-> "DataError", at |-> "awaitImportKey"]
         /\ payloadData[i] = Undefined

C9_Witness ==
  pc[1] = "failed" /\ secret_key[1] = << >> /\ payload[1] = PNotJson

\* What a call with these inputs and this clock reading does when it runs
\* alone: the error it throws, or the token it returns.
MainAlone(S, P, t) ==
  LET buf == Utf8Encode(S)
      parsed == JSONParse(P)
      data == AssignExp(parsed.v, GetNumericDate(Lifetime, t))
  IN IF ImportKeyRejects(buf) THEN [error |-> "DataError", token |-> << >>]
     ELSE IF ~parsed.ok THEN [error |-> "SyntaxError", token |-> << >>]
     ELSE IF ~IsJSObject(parsed.v) THEN [error |-> "TypeError", token |-> << >>]
     ELSE IF createChecksObject /\ parsed.v.t # "obj"
       THEN [error |-> "Error", token |-> << >>]
     ELSE [error |-> "none",
           token |-> CreateToken(ImportedKey(buf), CreateSigningInput(HeaderObject, data))]

\* C10: with two calls in flight, the outcome of each call that has ended is
\* the one of a call running alone with its inputs and its clock reading, and
\* its token verifies with its own secret.
C10_CallsAreIndependent ==
  \A i \in Calls :
    pc[i] \in {"done", "failed"} =>
      /\ [error |-> error[i].name, token |-> result[i]]
           = MainAlone(secret_key[i], payload[i], nowRead[i])
      /\ pc[i] = "done" => Verifies(result[i], secret_key[i])

\* Call 1 read the clock first and call 2 wrote its token first: the two
\* calls were in flight together.
C10_Witness ==
  /\ Returned(1) /\ Returned(2)
  /\ secret_key[1] # secret_key[2]
  /\ nowRead[1] < nowRead[2]
  /\ stdout = << result[2], result[1] >>

=============================================================================
